---- MODULE Spec2Model ----
(***************************************************************************)
(* Model of simplebgc-api-rs: the frame writers of src/parser.rs, the      *)
(* Transmit codecs of src/commands.rs and the code generated by            *)
(* #[derive(Transmit)] in simplebgc_api_macros/src/lib.rs.                 *)
(*                                                                         *)
(* The library keeps no state between calls.  The state of the model is    *)
(* the last call made by a client: which operation, its argument, the byte *)
(* sink or byte source it was given, and what it returned.                 *)
(***************************************************************************)
EXTENDS Integers, Sequences, FiniteSets, TLC

VARIABLES
    overflow_checks,  \* build profile: TRUE = debug (overflow panics), FALSE = release (wraps)
    op,               \* the operation of the last call
    ty,               \* name of the Transmit type of the last call, "-" for frame calls
    arg,              \* argument of the last call (command, value, or wire bytes)
    output,           \* the byte sink handed to the call, as the call left it
    ret,              \* what the call returned: "Ok", an io::ErrorKind, or "panic"
    val,              \* value produced by from_reader or read_cmd when ret = "Ok"
    input,            \* the byte source handed to the call, as the call left it
    encoded           \* TRUE when the bytes just decoded were produced by to_writer(arg)

vars == <<overflow_checks, op, ty, arg, output, ret, val, input, encoded>>

(***************************************************************************)
(* Bounds of the model.                                                    *)
(***************************************************************************)
MaxShortLen == 2      \* payloads of arbitrary sample bytes up to this length
MaxLongLen == 257     \* longest payload (constant runs), beyond the u8 length field
MaxCap == 7           \* largest bounded sink capacity tried

ByteSamples == {0, 1, 128, 255}
RunBytes == {0, 1}
Ids == {0, 1, 21, 86, 128, 200, 255}
LongLens == {255, 256, MaxLongLen}

RECURSIVE SeqsUpTo(_, _)
SeqsUpTo(S, n) ==
    IF n = 0 THEN {<<>>}
    ELSE LET shorter == SeqsUpTo(S, n - 1)
         IN shorter \cup {Append(s, b) : s \in {t \in shorter : Len(t) = n - 1}, b \in S}

Run(n, b) == [i \in 1..n |-> b]

Payloads == SeqsUpTo(ByteSamples, MaxShortLen) \cup {Run(n, b) : n \in LongLens, b \in RunBytes}

(***************************************************************************)
(* Machine arithmetic.                                                     *)
(***************************************************************************)
Panic == -1

\* u8 + u8: overflow panics when overflow checks are compiled in, wraps otherwise
u8_add(a, b, checks) ==
    IF a = Panic \/ b = Panic THEN Panic
    ELSE IF a + b > 255 THEN (IF checks THEN Panic ELSE (a + b) % 256)
    ELSE a + b

\* `% 256` applied to a u8: the remainder the source asks for.  (256 is not a u8
\* literal; the operand is below 256 already, so the operation changes nothing.)
u8_rem_256(a) == IF a = Panic THEN Panic ELSE a % 256

\* usize -> u8 via try_into().unwrap()
try_into_u8_unwrap(n) == IF n > 255 THEN Panic ELSE n

\* `expr as u8`
as_u8(n) == n % 256

RECURSIVE BitXor(_, _)
BitXor(a, b) ==
    IF a = 0 THEN b
    ELSE IF b = 0 THEN a
    ELSE (((a % 2) + (b % 2)) % 2) + 2 * BitXor(a \div 2, b \div 2)

RECURSIVE BitAnd(_, _)
BitAnd(a, b) ==
    IF a = 0 \/ b = 0 THEN 0
    ELSE ((a % 2) * (b % 2)) + 2 * BitAnd(a \div 2, b \div 2)

(***************************************************************************)
(* The byte sink (W: WriteBytesExt).  A sink accepts bytes until its       *)
(* capacity is exhausted, as a &mut [u8] does; Unlimited is a Vec<u8>.     *)
(* `req` records every byte the caller handed to the sink, `data` the      *)
(* bytes the sink accepted, `failed` whether any write erred or was short. *)
(***************************************************************************)
Unlimited == 1000000

NewSink(cap) == [cap |-> cap, data |-> <<>>, req |-> <<>>, failed |-> FALSE]

Room(w) == w.cap - Len(w.data)

Min(a, b) == IF a < b THEN a ELSE b

\* io::Write::write: accepts a prefix, returns the count
io_write(w, buf) ==
    LET n == Min(Len(buf), Room(w))
    IN [n |-> n,
        w |-> [w EXCEPT !.data = @ \o SubSeq(buf, 1, n),
                        !.req = @ \o buf,
                        !.failed = @ \/ n < Len(buf)]]

\* io::Write::write_all: Err(WriteZero) when the sink stops accepting
write_all(w, buf) ==
    LET r == io_write(w, buf)
    IN [res |-> IF r.n = Len(buf) THEN "Ok" ELSE "WriteZero", w |-> r.w]

write_u8(w, b) == write_all(w, <<b>>)

write_u16_le(w, n) == write_all(w, <<n % 256, n \div 256>>)

(***************************************************************************)
(* CRC-16 as computed by crc16::Digest::new(poly) / write / sum16.         *)
(***************************************************************************)
RECURSIVE crc16_table_entry(_, _, _)
crc16_table_entry(value, poly, k) ==
    IF k = 0 THEN value
    ELSE crc16_table_entry(IF value % 2 = 1 THEN BitXor(value \div 2, poly) ELSE value \div 2,
                           poly, k - 1)

\* one step of update(): value = table[(value as u8) ^ b] ^ (value >> 8)
crc16_step(value, poly, b) ==
    BitXor(crc16_table_entry(BitXor(value % 256, b), poly, 8), value \div 256)

\* the loop of update() over bytes[lo..hi], split in halves to bound the nesting
RECURSIVE crc16_update(_, _, _, _, _)
crc16_update(value, poly, bytes, lo, hi) ==
    IF lo > hi THEN value
    ELSE IF lo = hi THEN crc16_step(value, poly, bytes[lo])
    ELSE LET mid == (lo + hi) \div 2
             left == crc16_update(value, poly, bytes, lo, mid)
         IN IF left >= 0 THEN crc16_update(left, poly, bytes, mid + 1, hi) ELSE left

crc16_sum16(poly, bytes) == 65535 - crc16_update(65535 - 0, poly, bytes, 1, Len(bytes))

(***************************************************************************)
(* parser.rs: the two frame writers.                                       *)
(***************************************************************************)
START_BYTE_V1 == 62
START_BYTE_V2 == 36
CRC_POLY == 32773

OutgoingCommand(id, payload) == [id |-> id, payload |-> payload]

\* cmd.payload.iter().fold(0, |acc, x| (acc + x) % 256) on u8, over payload[lo..hi];
\* the range is split in halves to bound the nesting
RECURSIVE fold_checksum(_, _, _, _, _)
fold_checksum(payload, lo, hi, acc, checks) ==
    IF acc = Panic THEN Panic
    ELSE IF lo > hi THEN acc
    ELSE IF lo = hi THEN u8_rem_256(u8_add(acc, payload[lo], checks))
    ELSE LET mid == (lo + hi) \div 2
         IN fold_checksum(payload, mid + 1, hi, fold_checksum(payload, lo, mid, acc, checks),
                          checks)

APIv1_write_cmd(out, cmd, checks) ==
    LET len == try_into_u8_unwrap(Len(cmd.payload))
        id == as_u8(cmd.id)
        checksum == fold_checksum(cmd.payload, 1, Len(cmd.payload), 0, checks)
        o1 == write_u8(out, START_BYTE_V1).w
        o2 == write_u8(o1, id).w
        o3 == write_u8(o2, len).w
        hdr == u8_rem_256(u8_add(id, len, checks))
        o4 == write_u8(o3, hdr).w
        o5 == io_write(o4, cmd.payload).w
        o6 == write_u8(o5, checksum).w
    IN IF len = Panic THEN [ret |-> "panic", output |-> out]
       ELSE IF checksum = Panic THEN [ret |-> "panic", output |-> out]
       ELSE IF hdr = Panic THEN [ret |-> "panic", output |-> o3]
       ELSE [ret |-> "Ok", output |-> o6]

APIv2_write_cmd(out, cmd, checks) ==
    LET len == try_into_u8_unwrap(Len(cmd.payload))
        id == as_u8(cmd.id)
        checksum == crc16_sum16(CRC_POLY, cmd.payload)
        o1 == write_u8(out, START_BYTE_V2).w
        o2 == write_u8(o1, id).w
        o3 == write_u8(o2, len).w
        hdr == u8_rem_256(u8_add(id, len, checks))
        o4 == write_u8(o3, hdr).w
        o5 == io_write(o4, cmd.payload).w
        o6 == write_u16_le(o5, checksum).w
    IN IF len = Panic THEN [ret |-> "panic", output |-> out]
       ELSE IF hdr = Panic THEN [ret |-> "panic", output |-> o3]
       ELSE [ret |-> "Ok", output |-> o6]

\* read_cmd is `todo!()` in both generations: it panics before reading a byte
APIv1_read_cmd(bytes) == [ret |-> "panic"]

APIv2_read_cmd(bytes) == [ret |-> "panic"]

(***************************************************************************)
(* The byte source (R: ReadBytesExt): the bytes not yet consumed.          *)
(***************************************************************************)
Ok(v, rest) == [res |-> "Ok", val |-> v, rest |-> rest]

Err(kind, rest) == [res |-> kind, rest |-> rest]

\* io::Read::read_exact on a byte slice
read_exact(r, n) ==
    IF Len(r) < n THEN Err("UnexpectedEof", <<>>)
    ELSE Ok(SubSeq(r, 1, n), SubSeq(r, n + 1, Len(r)))

(***************************************************************************)
(* commands.rs: Transmit for the primitive types.  A u64 is held as four   *)
(* 16-bit limbs, least significant first.                                  *)
(***************************************************************************)
u8 == [k |-> "u8"]
i8 == [k |-> "i8"]
bool == [k |-> "bool"]
u16 == [k |-> "u16"]
i16 == [k |-> "i16"]
u64 == [k |-> "u64"]

u8_from_reader(r) ==
    LET x == read_exact(r, 1)
    IN IF x.res = "Ok" THEN Ok(x.val[1], x.rest) ELSE x

u8_to_writer(v, w) == write_u8(w, v)

i8_from_reader(r) ==
    LET x == read_exact(r, 1)
    IN IF x.res = "Ok" THEN Ok(IF x.val[1] > 127 THEN x.val[1] - 256 ELSE x.val[1], x.rest)
       ELSE x

i8_to_writer(v, w) == write_u8(w, (v + 256) % 256)

bool_from_reader(r) ==
    LET x == u8_from_reader(r)
    IN IF x.res # "Ok" THEN x
       ELSE IF x.val = 0 THEN Ok(FALSE, x.rest)
       ELSE IF x.val = 1 THEN Ok(TRUE, x.rest)
       ELSE Err("InvalidData", x.rest)

bool_to_writer(v, w) == IF v THEN write_u8(w, 1) ELSE write_u8(w, 0)

u16_from_reader(r) ==
    LET x == read_exact(r, 2)
    IN IF x.res = "Ok" THEN Ok(x.val[1] + 256 * x.val[2], x.rest) ELSE x

u16_to_writer(v, w) == write_all(w, <<v % 256, v \div 256>>)

i16_from_reader(r) ==
    LET x == u16_from_reader(r)
    IN IF x.res = "Ok" THEN Ok(IF x.val > 32767 THEN x.val - 65536 ELSE x.val, x.rest)
       ELSE x

i16_to_writer(v, w) == u16_to_writer((v + 65536) % 65536, w)

u64_from_reader(r) ==
    LET x == read_exact(r, 8)
    IN IF x.res = "Ok"
       THEN Ok([j \in 1..4 |-> x.val[2 * j - 1] + 256 * x.val[2 * j]], x.rest)
       ELSE x

u64_to_writer(v, w) ==
    write_all(w, [j \in 1..8 |-> IF j % 2 = 1 THEN v[(j + 1) \div 2] % 256
                                 ELSE v[j \div 2] \div 256])

(***************************************************************************)
(* Type descriptions: what a declaration in commands.rs gives the derive   *)
(* macro.  A range attribute is a sequence of inclusive ranges <<lo, hi>>. *)
(***************************************************************************)
Array(n, T) == [k |-> "array", n |-> n, of |-> T]

Bitflags(name, repr, all) == [k |-> "flags", name |-> name, repr |-> repr, all |-> all]

Field(name, T, attrs) == [name |-> name, ty |-> T, attrs |-> attrs]

Struct(name, fields) == [k |-> "struct", name |-> name, fields |-> fields]

Enum(name, repr, variants) == [k |-> "enum", name |-> name, repr |-> repr, variants |-> variants]

Range(lo, hi) == << <<lo, hi>> >>

Range2(lo1, hi1, lo2, hi2) == << <<lo1, hi1>>, <<lo2, hi2>> >>

RangeContains(rg, x) == rg[1] <= x /\ x <= rg[2]

(***************************************************************************)
(* commands.rs: the hand-written RcMode codec.                             *)
(***************************************************************************)
RcMode == [k |-> "RcMode"]

RcMode_from_reader(r) ==
    LET x == u8_from_reader(r)
        low == BitAnd(x.val, 3)
        inverted == BitAnd(x.val, 4) # 0
    IN IF x.res # "Ok" THEN x
       ELSE IF low = 0 THEN Ok([mode |-> "Angle", inverted |-> inverted], x.rest)
       ELSE IF low = 1 THEN Ok([mode |-> "Speed", inverted |-> inverted], x.rest)
       ELSE Err("InvalidData", x.rest)

RcMode_to_writer(v, w) ==
    LET mode_bits == IF v.mode = "Angle" THEN 0 ELSE 1
        inv_bits == IF v.inverted THEN 4 ELSE 0
    IN write_u8(w, mode_bits + inv_bits)

(***************************************************************************)
(* lib.rs: what #[derive(Transmit)] generates, and the generic impls of    *)
(* commands.rs (arrays, bit flags).  `fill` is the content of the memory   *)
(* that MaybeUninit::uninit().assume_init() hands out.                     *)
(***************************************************************************)
\* a generator joining the range tests with || : the value must lie in every range
check_this_every_range(attr, x) == \E i \in 1..Len(attr) : ~RangeContains(attr[i], x)

\* the condition of one generated `if`: the value is outside every range of the attribute
check_this(attr, x) == \A i \in 1..Len(attr) : ~RangeContains(attr[i], x)

\* the generated checks, one per range attribute per field: TRUE when one returns Err
checks(fields, v) ==
    \E i \in 1..Len(fields) :
        \E a \in 1..Len(fields[i].attrs) : check_this(fields[i].attrs[a], v[fields[i].name])

derive_struct_validate(T, v) == IF checks(T.fields, v) THEN "InvalidData" ELSE "Ok"

\* Transmit::validate: generated for structs, Ok(()) for enums and by default
validate(T, v) == IF T.k = "struct" THEN derive_struct_validate(T, v) ELSE "Ok"

\* a generated `match` whose `_` arm falls back to the first variant
match_discriminant_default(variants, d) ==
    IF \E i \in 1..Len(variants) : variants[i][2] = d
    THEN CHOOSE i \in 1..Len(variants) : variants[i][2] = d
    ELSE 1

\* the arm of the generated `match` that a wire value selects, 0 for the `_` arm
match_discriminant(variants, d) ==
    IF \E i \in 1..Len(variants) : variants[i][2] = d
    THEN CHOOSE i \in 1..Len(variants) :
             /\ variants[i][2] = d
             /\ \A j \in 1..(i - 1) : variants[j][2] # d
    ELSE 0

discriminant_of(variants, name) ==
    variants[CHOOSE i \in 1..Len(variants) : variants[i][1] = name][2]

uninit(T, fill) ==
    IF T.k = "struct" THEN [n \in {T.fields[i].name : i \in 1..Len(T.fields)} |-> fill]
    ELSE [i \in 1..T.n |-> fill]

RECURSIVE to_writer(_, _, _)
RECURSIVE array_to_writer(_, _, _, _)
RECURSIVE fields_to_writer(_, _, _, _)
RECURSIVE from_reader(_, _, _)
RECURSIVE array_from_reader(_, _, _, _, _)
RECURSIVE fields_from_reader(_, _, _, _, _)

array_to_writer(T, v, w, i) ==
    IF i > T.n THEN [res |-> "Ok", w |-> w]
    ELSE LET x == to_writer(T.of, v[i], w)
         IN IF x.res # "Ok" THEN x ELSE array_to_writer(T, v, x.w, i + 1)

fields_to_writer(T, v, w, i) ==
    IF i > Len(T.fields) THEN [res |-> "Ok", w |-> w]
    ELSE LET x == to_writer(T.fields[i].ty, v[T.fields[i].name], w)
         IN IF x.res # "Ok" THEN x ELSE fields_to_writer(T, v, x.w, i + 1)

derive_struct_to_writer(T, v, w) ==
    IF validate(T, v) # "Ok" THEN [res |-> validate(T, v), w |-> w]
    ELSE fields_to_writer(T, v, w, 1)

derive_enum_to_writer(T, v, w) == to_writer(T.repr, discriminant_of(T.variants, v), w)

bflags_to_writer(T, v, w) == to_writer(T.repr, v, w)

to_writer(T, v, w) ==
    CASE T.k = "u8" -> u8_to_writer(v, w)
      [] T.k = "i8" -> i8_to_writer(v, w)
      [] T.k = "bool" -> bool_to_writer(v, w)
      [] T.k = "u16" -> u16_to_writer(v, w)
      [] T.k = "i16" -> i16_to_writer(v, w)
      [] T.k = "u64" -> u64_to_writer(v, w)
      [] T.k = "array" -> array_to_writer(T, v, w, 1)
      [] T.k = "flags" -> bflags_to_writer(T, v, w)
      [] T.k = "RcMode" -> RcMode_to_writer(v, w)
      [] T.k = "struct" -> derive_struct_to_writer(T, v, w)
      [] T.k = "enum" -> derive_enum_to_writer(T, v, w)

array_from_reader(T, data, r, fill, i) ==
    IF i > T.n THEN Ok(data, r)
    ELSE LET x == from_reader(T.of, r, fill)
         IN IF x.res # "Ok" THEN x
            ELSE array_from_reader(T, [data EXCEPT ![i] = x.val], x.rest, fill, i + 1)

fields_from_reader(T, data, r, fill, i) ==
    IF i > Len(T.fields) THEN Ok(data, r)
    ELSE LET x == from_reader(T.fields[i].ty, r, fill)
         IN IF x.res # "Ok" THEN x
            ELSE fields_from_reader(T, [data EXCEPT ![T.fields[i].name] = x.val],
                                    x.rest, fill, i + 1)

derive_struct_from_reader(T, r, fill) ==
    LET x == fields_from_reader(T, uninit(T, fill), r, fill, 1)
    IN IF x.res # "Ok" THEN x
       ELSE IF validate(T, x.val) # "Ok" THEN Err(validate(T, x.val), x.rest)
       ELSE x

derive_enum_from_reader(T, r, fill) ==
    LET x == from_reader(T.repr, r, fill)
        arm == match_discriminant(T.variants, x.val)
    IN IF x.res # "Ok" THEN x
       ELSE IF arm # 0 THEN Ok(T.variants[arm][1], x.rest)
       ELSE Err("InvalidData", x.rest)

\* $flags::from_bits: None when a bit outside the declared flags is set
bflags_from_reader(T, r, fill) ==
    LET x == from_reader(T.repr, r, fill)
    IN IF x.res # "Ok" THEN x
       ELSE IF BitAnd(x.val, T.all) = x.val THEN x
       ELSE Err("InvalidData", x.rest)

from_reader(T, r, fill) ==
    CASE T.k = "u8" -> u8_from_reader(r)
      [] T.k = "i8" -> i8_from_reader(r)
      [] T.k = "bool" -> bool_from_reader(r)
      [] T.k = "u16" -> u16_from_reader(r)
      [] T.k = "i16" -> i16_from_reader(r)
      [] T.k = "u64" -> u64_from_reader(r)
      [] T.k = "array" -> array_from_reader(T, uninit(T, fill), r, fill, 1)
      [] T.k = "flags" -> bflags_from_reader(T, r, fill)
      [] T.k = "RcMode" -> RcMode_from_reader(r)
      [] T.k = "struct" -> derive_struct_from_reader(T, r, fill)
      [] T.k = "enum" -> derive_enum_from_reader(T, r, fill)

(***************************************************************************)
(* commands.rs: the declarations.                                          *)
(***************************************************************************)
BoardInfoStateFlags == Bitflags("BoardInfoStateFlags", u8, 31)
BoardInfoFeatures == Bitflags("BoardInfoFeatures", u16, 63)
BoardInfoConnectionFlags == Bitflags("BoardInfoConnectionFlags", u8, 1)

BoardInfo ==
    Struct("BoardInfo",
           <<Field("board_ver", u8, <<>>),
             Field("firmware_ver", u16, <<>>),
             Field("state_flags1", BoardInfoStateFlags, <<>>),
             Field("board_features", BoardInfoFeatures, <<>>),
             Field("connection_flag", BoardInfoConnectionFlags, <<>>),
             Field("frw_extra_id", u64, <<>>),
             Field("_reserved", Array(7, u8), <<>>)>>)

BoardInfo3 ==
    Struct("BoardInfo3",
           <<Field("device_id", Array(9, u8), <<>>),
             Field("mcu_id", Array(12, u8), <<>>),
             Field("eeprom_size", u64, <<>>),
             Field("script_slot_size", Array(5, u16), <<>>),
             Field("profile_set_slots", u8, <<>>),
             Field("profile_set_cur", u8, <<Range(1, 6)>>),
             Field("_reserved", Array(32, u8), <<>>)>>)

MotorStatus ==
    Struct("MotorStatus",
           <<Field("p", u8, <<Range(0, 255)>>),
             Field("i", u8, <<Range(0, 255)>>),
             Field("d", u8, <<Range(0, 255)>>),
             Field("power", u8, <<Range(0, 255)>>),
             Field("invert", bool, <<>>),
             Field("poles", u8, <<Range(0, 255)>>)>>)

RcStatus ==
    Struct("RcStatus",
           <<Field("min_angle", i16, <<Range(-720, 720)>>),
             Field("max_angle", i16, <<Range(-720, 720)>>),
             Field("mode", RcMode, <<>>),
             Field("lpf", u8, <<Range(0, 15)>>),
             Field("speed", u8, <<Range(0, 255)>>),
             Field("follow", i8, <<Range(-127, 127)>>)>>)

PWMFrequency == Enum("PWMFrequency", u8, << <<"Low", 0>>, <<"High", 1>>, <<"Pitch", 2>> >>)

BaudRate ==
    Enum("BaudRate", u8,
         << <<"Baud115200", 0>>, <<"Baud57600", 1>>, <<"Baud38400", 2>>,
            <<"Baud19200", 3>>, <<"Baud9600", 4>>, <<"Baud256000", 5>> >>)

ReadParams3 ==
    Struct("ReadParams3",
           <<Field("profile_id", u8, <<Range2(0, 4, 255, 255)>>),
             Field("axis", Array(3, MotorStatus), <<>>),
             Field("acc_limiter_all", u8, <<Range(0, 255)>>),
             Field("ext_fc_gain", Array(2, i8), <<>>),
             Field("rc_status", Array(3, RcStatus), <<>>),
             Field("gyro_thrust", u8, <<Range(0, 255)>>),
             Field("use_model", bool, <<>>),
             Field("pwm_freq", PWMFrequency, <<>>),
             Field("serial_spped", BaudRate, <<>>)>>)

Types == <<MotorStatus, RcMode, RcStatus, PWMFrequency, BaudRate, ReadParams3, BoardInfo, BoardInfo3>>

TypeName(T) == IF T.k = "RcMode" THEN "RcMode" ELSE T.name

TypeNamed(n) == Types[CHOOSE i \in 1..Len(Types) : TypeName(Types[i]) = n]

(***************************************************************************)
(* Inputs tried by the clients.                                            *)
(***************************************************************************)
Caps == (0..MaxCap) \cup {Unlimited}

Cmds == {OutgoingCommand(id, payload) : id \in Ids, payload \in Payloads}

Fills == {0, 170}

MotorStatusValues ==
    {[p |-> p, i |-> 1, d |-> 2, power |-> pw, invert |-> b, poles |-> 14] :
        p \in {0, 255}, pw \in {0, 200}, b \in BOOLEAN}

RcModeValues == [mode : {"Angle", "Speed"}, inverted : BOOLEAN]

RcStatusValues ==
    [min_angle : {-721, -720, -1, 720, 721}, max_angle : {-720, 300, 721},
     mode : RcModeValues, lpf : {0, 15, 16}, speed : {0, 255}, follow : {-128, -127, 127}]

GoodRc ==
    [min_angle |-> -720, max_angle |-> 720, mode |-> [mode |-> "Speed", inverted |-> TRUE],
     lpf |-> 15, speed |-> 255, follow |-> -127]

BadRcs ==
    {[GoodRc EXCEPT !.min_angle = 721], [GoodRc EXCEPT !.min_angle = -721],
     [GoodRc EXCEPT !.lpf = 16], [GoodRc EXCEPT !.follow = -128]}

RcArrays ==
    {<<GoodRc, GoodRc, GoodRc>>}
    \cup {[<<GoodRc, GoodRc, GoodRc>> EXCEPT ![k] = b] : k \in 1..3, b \in BadRcs}

AxisSample ==
    <<[p |-> 0, i |-> 1, d |-> 2, power |-> 200, invert |-> TRUE, poles |-> 14],
      [p |-> 255, i |-> 128, d |-> 7, power |-> 0, invert |-> FALSE, poles |-> 22],
      [p |-> 10, i |-> 20, d |-> 30, power |-> 255, invert |-> TRUE, poles |-> 0]>>

ReadParams3With(pids, ums, pfs, brs) ==
    {[profile_id |-> pid, axis |-> AxisSample, acc_limiter_all |-> 255,
      ext_fc_gain |-> <<-128, 127>>, rc_status |-> rc, gyro_thrust |-> 9,
      use_model |-> um, pwm_freq |-> pf, serial_spped |-> br] :
        pid \in pids, rc \in RcArrays, um \in ums, pf \in pfs, br \in brs}

U64Samples == {<<0, 0, 0, 0>>, <<65535, 65535, 65535, 65535>>, <<513, 1027, 1541, 2055>>}

BoardInfoValues ==
    [board_ver : {0, 255}, firmware_ver : {2305, 65535}, state_flags1 : {0, 21, 31},
     board_features : {0, 63}, connection_flag : {0, 1}, frw_extra_id : U64Samples,
     _reserved : {Run(7, 0), <<1, 2, 3, 4, 5, 6, 255>>}]

BoardInfo3Values ==
    [device_id : {Run(9, 255), <<1, 2, 3, 4, 5, 6, 7, 8, 9>>}, mcu_id : {Run(12, 128)},
     eeprom_size : U64Samples, script_slot_size : {<<0, 1, 256, 4660, 65535>>},
     profile_set_slots : {0, 255}, profile_set_cur : {0, 1, 6, 7},
     _reserved : {Run(32, 0), Run(32, 255)}]

\* the values handed to to_writer
Values(n) ==
    CASE n = "MotorStatus" -> MotorStatusValues
      [] n = "RcMode" -> RcModeValues
      [] n = "RcStatus" -> RcStatusValues
      [] n = "PWMFrequency" -> {"Low", "High", "Pitch"}
      [] n = "BaudRate" -> {"Baud115200", "Baud57600", "Baud38400", "Baud19200", "Baud9600",
                            "Baud256000"}
      [] n = "ReadParams3" -> ReadParams3With({0, 4, 5, 254, 255}, BOOLEAN, {"Low", "Pitch"},
                                              {"Baud115200", "Baud256000"})
      [] n = "BoardInfo" -> BoardInfoValues
      [] n = "BoardInfo3" -> BoardInfo3Values

\* the values handed to validate: every u8 as profile_id
ValidateValues(n) ==
    IF n = "ReadParams3" THEN ReadParams3With(0..255, {TRUE}, {"High"}, {"Baud9600"})
    ELSE Values(n)

TypeNames == {TypeName(Types[i]) : i \in 1..Len(Types)}

Encode(n, v) == to_writer(TypeNamed(n), v, NewSink(Unlimited))

WireSeed(n) == Encode(n, CHOOSE v \in Values(n) : Encode(n, v).res = "Ok").w.data

\* wire inputs: every single byte for the one-byte codecs, else encodings with one byte
\* replaced, and their truncations
Wires(n) ==
    IF n \in {"PWMFrequency", "BaudRate", "RcMode"}
    THEN {<<>>} \cup {<<b>> : b \in 0..255}
    ELSE LET seed == WireSeed(n)
         IN {[seed EXCEPT ![i] = b] : i \in 1..Len(seed), b \in ByteSamples}
            \cup {SubSeq(seed, 1, m) : m \in 0..Len(seed)}

(***************************************************************************)
(* The state machine: one action per library entry point.  A behaviour is  *)
(* one call on a fresh sink or source, followed, when bytes were written,  *)
(* by the matching decode of those bytes.                                  *)
(***************************************************************************)
Init ==
    /\ overflow_checks \in BOOLEAN
    /\ op = "none"
    /\ ty = "-"
    /\ arg = "-"
    /\ output = NewSink(0)
    /\ ret = "-"
    /\ val = "-"
    /\ input = <<>>
    /\ encoded = FALSE

\* no call has been made yet
Idle == op = "none"

WriteCmdV1 ==
    /\ Idle
    /\ \E cmd \in Cmds, cap \in Caps :
           LET r == APIv1_write_cmd(NewSink(cap), cmd, overflow_checks)
           IN /\ op' = "APIv1_write_cmd"
              /\ arg' = cmd
              /\ output' = r.output
              /\ ret' = r.ret
    /\ ty' = "-"
    /\ val' = "-"
    /\ input' = <<>>
    /\ encoded' = FALSE
    /\ UNCHANGED overflow_checks

WriteCmdV2 ==
    /\ Idle
    /\ \E cmd \in Cmds, cap \in Caps :
           LET r == APIv2_write_cmd(NewSink(cap), cmd, overflow_checks)
           IN /\ op' = "APIv2_write_cmd"
              /\ arg' = cmd
              /\ output' = r.output
              /\ ret' = r.ret
    /\ ty' = "-"
    /\ val' = "-"
    /\ input' = <<>>
    /\ encoded' = FALSE
    /\ UNCHANGED overflow_checks

\* the frame just written is fed back to read_cmd of the same generation
ReadCmdV1 ==
    /\ op = "APIv1_write_cmd"
    /\ ret = "Ok"
    /\ op' = "APIv1_read_cmd"
    /\ ret' = APIv1_read_cmd(output.data).ret
    /\ val' = "-"
    /\ input' = output.data
    /\ encoded' = TRUE
    /\ UNCHANGED <<overflow_checks, ty, arg, output>>

ReadCmdV2 ==
    /\ op = "APIv2_write_cmd"
    /\ ret = "Ok"
    /\ op' = "APIv2_read_cmd"
    /\ ret' = APIv2_read_cmd(output.data).ret
    /\ val' = "-"
    /\ input' = output.data
    /\ encoded' = TRUE
    /\ UNCHANGED <<overflow_checks, ty, arg, output>>

Validate ==
    /\ Idle
    /\ \E n \in TypeNames :
           \E v \in ValidateValues(n) :
               /\ op' = "validate"
               /\ ty' = n
               /\ arg' = v
               /\ ret' = validate(TypeNamed(n), v)
    /\ output' = NewSink(0)
    /\ val' = "-"
    /\ input' = <<>>
    /\ encoded' = FALSE
    /\ UNCHANGED overflow_checks

ToWriter ==
    /\ Idle
    /\ \E n \in TypeNames :
           \E v \in Values(n), cap \in {0, 1, MaxCap, Unlimited} :
               LET r == to_writer(TypeNamed(n), v, NewSink(cap))
               IN /\ op' = "to_writer"
                  /\ ty' = n
                  /\ arg' = v
                  /\ output' = r.w
                  /\ ret' = r.res
    /\ val' = "-"
    /\ input' = <<>>
    /\ encoded' = FALSE
    /\ UNCHANGED overflow_checks

FromReader ==
    /\ Idle
    /\ \E n \in TypeNames :
           \E wire \in Wires(n), fill \in Fills :
               LET r == from_reader(TypeNamed(n), wire, fill)
               IN /\ op' = "from_reader"
                  /\ ty' = n
                  /\ arg' = wire
                  /\ ret' = r.res
                  /\ val' = IF r.res = "Ok" THEN r.val ELSE "-"
                  /\ input' = r.rest
    /\ output' = NewSink(0)
    /\ encoded' = FALSE
    /\ UNCHANGED overflow_checks

\* the bytes just written by to_writer are handed to from_reader of the same type
FromWritten ==
    /\ op = "to_writer"
    /\ ret = "Ok"
    /\ \E fill \in Fills :
           LET r == from_reader(TypeNamed(ty), output.data, fill)
           IN /\ op' = "from_reader"
              /\ ret' = r.res
              /\ val' = IF r.res = "Ok" THEN r.val ELSE "-"
              /\ input' = r.rest
    /\ encoded' = TRUE
    /\ UNCHANGED <<overflow_checks, ty, arg, output>>

Next ==
    \/ WriteCmdV1
    \/ WriteCmdV2
    \/ ReadCmdV1
    \/ ReadCmdV2
    \/ Validate
    \/ ToWriter
    \/ FromReader
    \/ FromWritten

Spec == Init /\ [][Next]_vars

(***************************************************************************)
(* Properties.                                                             *)
(***************************************************************************)
WriteOps == {"APIv1_write_cmd", "APIv2_write_cmd"}

ReadOps == {"APIv1_read_cmd", "APIv2_read_cmd"}

RECURSIVE SumRange(_, _, _)
SumRange(s, lo, hi) ==
    IF lo > hi THEN 0
    ELSE IF lo = hi THEN s[lo]
    ELSE SumRange(s, lo, (lo + hi) \div 2) + SumRange(s, (lo + hi) \div 2 + 1, hi)

SumBytes(s, n) == SumRange(s, 1, n)

\* C1: for both generations and every payload of at most 255 bytes, write_cmd completes
\* and the 4th byte it emits is (id + length) mod 256, also when id + length >= 256.
\* Stated, for generation 1, for the payloads whose byte sum stays below 256, which keeps
\* the trailer sum of C2 out of the picture.
C1_HeaderChecksumWraps ==
    (/\ op \in WriteOps
     /\ Len(arg.payload) <= 255
     /\ (op = "APIv1_write_cmd" => SumBytes(arg.payload, Len(arg.payload)) < 256))
        => /\ ret = "Ok"
           /\ Len(output.req) >= 4
           /\ output.req[4] = (arg.id + Len(arg.payload)) % 256

\* C2: for generation 1 and every payload of at most 255 bytes, write_cmd completes and
\* the trailer byte is (sum of the payload bytes) mod 256.  Stated for the commands whose
\* id + length stays below 256, which keeps the header sum of C1 out of the picture.
C2_TrailerSumWraps ==
    (/\ op = "APIv1_write_cmd"
     /\ Len(arg.payload) <= 255
     /\ arg.id + Len(arg.payload) < 256)
        => /\ ret = "Ok"
           /\ Len(output.req) = Len(arg.payload) + 5
           /\ output.req[Len(output.req)] = SumBytes(arg.payload, Len(arg.payload)) % 256

FrameHead(start) ==
    <<start, arg.id, Len(arg.payload), (arg.id + Len(arg.payload)) % 256>> \o arg.payload

\* C3: write_cmd emits start marker, id, length, header checksum, the payload verbatim and
\* the trailer, in this order: 0x3E and a 1-byte sum for generation 1, 0x24 and a 2-byte
\* trailer for generation 2; id 21 with an empty payload gives 3E 15 00 15 00.
C3_FrameLayout ==
    /\ (op = "APIv1_write_cmd" /\ Len(arg.payload) <= 255)
           => output.req = FrameHead(62)
                               \o <<SumBytes(arg.payload, Len(arg.payload)) % 256>>
    /\ (op = "APIv2_write_cmd" /\ Len(arg.payload) <= 255)
           => /\ Len(output.req) = Len(arg.payload) + 6
              /\ SubSeq(output.req, 1, Len(arg.payload) + 4) = FrameHead(36)
    /\ (op = "APIv1_write_cmd" /\ arg = [id |-> 21, payload |-> <<>>])
           => output.req = <<62, 21, 0, 21, 0>>

\* C4: a payload longer than 255 bytes ends in an Err returned to the caller, not in a
\* panic, and nothing is emitted.
C4_LongPayloadIsErr ==
    (op \in WriteOps /\ Len(arg.payload) > 255)
        => /\ ret \notin {"Ok", "panic"}
           /\ output.req = <<>>

\* C5: read_cmd applied to the complete frame written by write_cmd(id, payload) of the
\* same generation succeeds and yields (id, payload).
C5_FrameRoundTrip ==
    (op \in ReadOps /\ input = output.req) => (ret = "Ok" /\ val = <<arg.id, arg.payload>>)

\* C10: write_cmd returns Ok only when the sink accepted every byte of the frame; when a
\* write fails or is short it returns an error.
C10_SinkErrorsReturned ==
    op \in WriteOps
        => /\ output.failed => ret # "Ok"
           /\ ret = "Ok" => output.data = output.req

\* Whenever write_cmd returns Ok, the bytes it handed to the sink are the frame of C3.
FrameLayoutWhenOk ==
    /\ (op = "APIv1_write_cmd" /\ ret = "Ok")
           => output.req = FrameHead(START_BYTE_V1)
                               \o <<SumBytes(arg.payload, Len(arg.payload)) % 256>>
    /\ (op = "APIv2_write_cmd" /\ ret = "Ok")
           => /\ Len(output.req) = Len(arg.payload) + 6
              /\ SubSeq(output.req, 1, Len(arg.payload) + 4) = FrameHead(START_BYTE_V2)
    /\ (op = "APIv1_write_cmd" /\ arg = [id |-> 21, payload |-> <<>>])
           => (ret = "Ok" /\ output.req = <<62, 21, 0, 21, 0>>)

\* C6: ReadParams3.validate() succeeds exactly for profile_id in {0,1,2,3,4,255} and fails
\* with InvalidData otherwise; fields without a range attribute (rc_status, every field
\* of BoardInfo) never make validate() fail.
C6_RangeDisjunction ==
    op = "validate"
        => /\ ty = "ReadParams3"
                  => /\ ret = "Ok" <=> arg.profile_id \in {0, 1, 2, 3, 4, 255}
                     /\ ret \in {"Ok", "InvalidData"}
           /\ ty = "BoardInfo" => ret = "Ok"
           /\ ty = "BoardInfo3" => (ret = "Ok" <=> arg.profile_set_cur \in 1..6)

C6_Witness ==
    /\ op = "validate"
    /\ ty = "ReadParams3"
    /\ arg.profile_id = 255
    /\ arg.rc_status[1].lpf = 16
    /\ ret = "Ok"

ExpectedVariant(n, d) ==
    IF n = "PWMFrequency"
    THEN CASE d = 0 -> "Low" [] d = 1 -> "High" [] d = 2 -> "Pitch" [] OTHER -> "none"
    ELSE CASE d = 0 -> "Baud115200" [] d = 1 -> "Baud57600" [] d = 2 -> "Baud38400"
           [] d = 3 -> "Baud19200" [] d = 4 -> "Baud9600" [] d = 5 -> "Baud256000"
           [] OTHER -> "none"

\* C7: from_reader of PWMFrequency and BaudRate yields the variant bound to the wire byte
\* when it is a declared discriminant, and InvalidData for every other byte.
C7_TaggedUnionExact ==
    (op = "from_reader" /\ ty \in {"PWMFrequency", "BaudRate"} /\ ~encoded /\ Len(arg) = 1)
        => IF ExpectedVariant(ty, arg[1]) # "none"
           THEN ret = "Ok" /\ val = ExpectedVariant(ty, arg[1]) /\ input = <<>>
           ELSE ret = "InvalidData"

C7_Witness ==
    /\ op = "from_reader"
    /\ ty = "BaudRate"
    /\ ~encoded
    /\ arg = <<6>>
    /\ ret = "InvalidData"

\* C8: for every derived codec and every value for which validate() passes, to_writer
\* succeeds, and from_reader on the bytes written consumes them all and returns the value.
C8_CodecRoundTrip ==
    /\ (op = "to_writer" /\ output.cap = Unlimited /\ validate(TypeNamed(ty), arg) = "Ok")
           => ret = "Ok"
    /\ (op = "from_reader" /\ encoded) => (ret = "Ok" /\ val = arg /\ input = <<>>)

\* Whatever to_writer wrote with success, from_reader turns back into the same value,
\* consuming every byte.
RoundTripOfWritten ==
    (op = "from_reader" /\ encoded) => (ret = "Ok" /\ val = arg /\ input = <<>>)

\* C9: when to_writer of a record returns the range error, no byte has reached the sink,
\* also when the offending value sits in a nested record.
C9_NoBytesBeforeValidation ==
    (op = "to_writer" /\ TypeNamed(ty).k = "struct" /\ ret = "InvalidData")
        => (output.req = <<>> /\ output.data = <<>>)

====
